---- MODULE Spec2Model ----
(***************************************************************************)
(* Model of src/src/lib.rs: the CompactSize / Txid / OutPoint / Script /   *)
(* TransactionInput / BitcoinTransaction codec.                            *)
(*                                                                         *)
(* Integers wider than 16 bits are held as little-endian sequences of      *)
(* 16-bit limbs (a u32 is 2 limbs, a u64 / usize is 4 limbs), so that      *)
(* to_le_bytes / from_le_bytes, the `as` casts and the usize additions are *)
(* computed at their real width.  Bytes are naturals in 0..255.  usize is  *)
(* 64 bits wide (a 64-bit target).                                         *)
(***************************************************************************)
EXTENDS Integers, Sequences, FiniteSets, TLC

VARIABLES pc, val, buf, res, overflow_checks, alloc_ok
vars == <<pc, val, buf, res, overflow_checks, alloc_ok>>

----------------------------------------------------------------------------
(* Bounds of the model *)

\* longest tail that follows the first byte of a raw CompactSize input
MaxRawTail == 9

\* longest raw string handed to the Txid deserializer
MaxHexLen == 66

\* longest raw buffer handed to OutPoint::from_bytes
MaxOutPointRaw == 40

\* longest script of an encoded value, besides the class-boundary lengths
MaxScriptLen == 1

\* longest payload that follows the length prefix of a raw Script input
MaxRawPayload == 4

\* most inputs of an encoded transaction
MaxInputs == 2

\* most inputs laid out in a raw transaction buffer
MaxRawInputs == 2

----------------------------------------------------------------------------
(* Fixed-width integers *)

Limb == 256 * 256

\* a small natural (< 2^31) as u64 / usize
U64FromNat(n) == <<n % Limb, (n \div Limb) % Limb, 0, 0>>

\* the low `w` limbs of u, zero-extended to u64 (`x as u64` for x: u8/u16/u32)
ZeroExtend(u) == [i \in 1..4 |-> IF i <= Len(u) THEN u[i] ELSE 0]

ToNat(u) == u[1] + Limb * u[2]

RECURSIVE CmpFrom(_, _, _)
CmpFrom(a, b, i) ==
    IF i = 0 THEN 0
    ELSE IF a[i] < b[i] THEN -1
    ELSE IF a[i] > b[i] THEN 1
    ELSE CmpFrom(a, b, i - 1)

LtU64(a, b) == CmpFrom(a, b, 4) < 0
LeU64(a, b) == CmpFrom(a, b, 4) <= 0

\* carry into limb i of a + b
RECURSIVE CarryInto(_, _, _)
CarryInto(a, b, i) ==
    IF i = 1 THEN 0
    ELSE (a[i - 1] + b[i - 1] + CarryInto(a, b, i - 1)) \div Limb

\* usize addition on a 64-bit target: the wrapped sum and the overflow flag
AddUsize(a, b) ==
    [sum      |-> [i \in 1..4 |-> (a[i] + b[i] + CarryInto(a, b, i)) % Limb],
     overflow |-> CarryInto(a, b, 5) = 1]

\* uN::to_le_bytes for a value of Len(u) limbs
ToLeBytes(u) ==
    [i \in 1..(2 * Len(u)) |->
        IF i % 2 = 1 THEN u[(i + 1) \div 2] % 256 ELSE u[i \div 2] \div 256]

\* uN::from_le_bytes for 2, 4 or 8 bytes
FromLeBytes(bs) ==
    [j \in 1..(Len(bs) \div 2) |-> bs[2 * j - 1] + 256 * bs[2 * j]]

\* `value as u8`, `value as u16`, `value as u32` on a u64
AsU8(u)  == u[1] % 256
AsU16(u) == <<u[1]>>
AsU32(u) == <<u[1], u[2]>>

----------------------------------------------------------------------------
(* Results *)

InsufficientBytes == <<"BitcoinError", "InsufficientBytes">>
InvalidFormat     == <<"BitcoinError", "InvalidFormat">>

\* E::custom(msg) of serde::de::Error
DeError_custom(msg) == <<"serde::de::Error", msg>>

Ok(v, n)   == [tag |-> "Ok", value |-> v, used |-> n]
OkVal(v)   == [tag |-> "Ok", value |-> v]
Err(e)     == [tag |-> "Err", error |-> e]
Panic(why) == [tag |-> "Panic", why |-> why]
NoRes      == [tag |-> "None"]
NoVal      == <<>>

----------------------------------------------------------------------------
(* CompactSize *)

CompactSize_new(value) == [value |-> value]

CompactSize_to_bytes_le_fd(self) ==
    LET value == self.value IN
    IF LeU64(value, U64FromNat(253)) THEN <<AsU8(value)>>
    ELSE IF LeU64(value, <<65535, 0, 0, 0>>) THEN <<253>> \o ToLeBytes(AsU16(value))
    ELSE IF LeU64(value, <<65535, 65535, 0, 0>>) THEN <<254>> \o ToLeBytes(AsU32(value))
    ELSE <<255>> \o ToLeBytes(value)

CompactSize_to_bytes_lt_ffff(self) ==
    LET value == self.value IN
    IF LtU64(value, U64FromNat(253)) THEN <<AsU8(value)>>
    ELSE IF LtU64(value, <<65535, 0, 0, 0>>) THEN <<253>> \o ToLeBytes(AsU16(value))
    ELSE IF LeU64(value, <<65535, 65535, 0, 0>>) THEN <<254>> \o ToLeBytes(AsU32(value))
    ELSE <<255>> \o ToLeBytes(value)

CompactSize_to_bytes(self) ==
    LET value == self.value IN
    IF LtU64(value, U64FromNat(253)) THEN <<AsU8(value)>>
    ELSE IF LeU64(value, <<65535, 0, 0, 0>>) THEN <<253>> \o ToLeBytes(AsU16(value))
    ELSE IF LeU64(value, <<65535, 65535, 0, 0>>) THEN <<254>> \o ToLeBytes(AsU32(value))
    ELSE <<255>> \o ToLeBytes(value)

CompactSize_from_bytes_le3(bytes) ==
    IF Len(bytes) = 0 THEN Err(InsufficientBytes)
    ELSE LET first == bytes[1] IN
        IF first <= 252 THEN Ok(CompactSize_new(ZeroExtend(<<first>>)), 1)
        ELSE IF first = 253 THEN
            IF Len(bytes) <= 3 THEN Err(InsufficientBytes)
            ELSE Ok(CompactSize_new(ZeroExtend(FromLeBytes(SubSeq(bytes, 2, 3)))), 3)
        ELSE IF first = 254 THEN
            IF Len(bytes) < 5 THEN Err(InsufficientBytes)
            ELSE Ok(CompactSize_new(ZeroExtend(FromLeBytes(SubSeq(bytes, 2, 5)))), 5)
        ELSE
            IF Len(bytes) < 9 THEN Err(InsufficientBytes)
            ELSE Ok(CompactSize_new(FromLeBytes(SubSeq(bytes, 2, 9))), 9)

CompactSize_from_bytes(bytes) ==
    IF Len(bytes) = 0 THEN Err(InsufficientBytes)
    ELSE LET first == bytes[1] IN
        IF first <= 252 THEN Ok(CompactSize_new(ZeroExtend(<<first>>)), 1)
        ELSE IF first = 253 THEN
            IF Len(bytes) < 3 THEN Err(InsufficientBytes)
            ELSE Ok(CompactSize_new(ZeroExtend(FromLeBytes(SubSeq(bytes, 2, 3)))), 3)
        ELSE IF first = 254 THEN
            IF Len(bytes) < 5 THEN Err(InsufficientBytes)
            ELSE Ok(CompactSize_new(ZeroExtend(FromLeBytes(SubSeq(bytes, 2, 5)))), 5)
        ELSE
            IF Len(bytes) < 9 THEN Err(InsufficientBytes)
            ELSE Ok(CompactSize_new(FromLeBytes(SubSeq(bytes, 2, 9))), 9)

----------------------------------------------------------------------------
(* hex crate *)

Reverse(s) == [i \in 1..Len(s) |-> s[Len(s) + 1 - i]]

HexLower == <<"0", "1", "2", "3", "4", "5", "6", "7",
              "8", "9", "a", "b", "c", "d", "e", "f">>
HexUpper == <<"0", "1", "2", "3", "4", "5", "6", "7",
              "8", "9", "A", "B", "C", "D", "E", "F">>

\* hex::encode: two lowercase digits per byte, high nibble first
hex_encode(bytes) ==
    [i \in 1..(2 * Len(bytes)) |->
        LET b == bytes[(i + 1) \div 2] IN
        HexLower[(IF i % 2 = 1 THEN b \div 16 ELSE b % 16) + 1]]

\* value of one hex digit, -1 when the character is not a hex digit
HexVal(c) ==
    IF \E k \in 1..16 : HexLower[k] = c
    THEN (CHOOSE k \in 1..16 : HexLower[k] = c) - 1
    ELSE IF \E k \in 1..16 : HexUpper[k] = c
    THEN (CHOOSE k \in 1..16 : HexUpper[k] = c) - 1
    ELSE -1

\* hex::decode: odd length and non-hex characters are errors
hex_decode(v) ==
    IF Len(v) % 2 # 0 THEN Err("OddLength")
    ELSE IF \E i \in 1..Len(v) : HexVal(v[i]) = -1 THEN Err("InvalidHexCharacter")
    ELSE OkVal([j \in 1..(Len(v) \div 2) |->
                  16 * HexVal(v[2 * j - 1]) + HexVal(v[2 * j])])

----------------------------------------------------------------------------
(* Txid *)

Txid(bytes) == <<bytes>>

Txid_serialize(self) ==
    LET reversed == Reverse(self[1])
        hex_string == hex_encode(reversed)
    IN hex_string

Txid_visit_str_lt32(v) ==
    LET d == hex_decode(v) IN
    IF d.tag = "Err" THEN Err(DeError_custom(d.error))
    ELSE LET bytes == d.value IN
        IF Len(bytes) < 32 THEN Err(DeError_custom("Txid must be exactly 32 bytes"))
        ELSE IF Len(bytes) # 32 THEN Panic("copy_from_slice: length mismatch")
        ELSE OkVal(Txid(Reverse(bytes)))

Txid_visit_str(v) ==
    LET d == hex_decode(v) IN
    IF d.tag = "Err" THEN Err(DeError_custom(d.error))
    ELSE LET bytes == d.value IN
        IF Len(bytes) # 32 THEN Err(DeError_custom("Txid must be exactly 32 bytes"))
        ELSE OkVal(Txid(Reverse(bytes)))

----------------------------------------------------------------------------
(* OutPoint *)

OutPoint_new(txid, vout) == [txid |-> Txid(txid), vout |-> vout]

OutPoint_to_bytes_no_reverse(self) ==
    LET txid_bytes == self.txid[1]
    IN txid_bytes \o ToLeBytes(self.vout)

OutPoint_to_bytes(self) ==
    LET txid_bytes == Reverse(self.txid[1])
    IN txid_bytes \o ToLeBytes(self.vout)

OutPoint_from_bytes_no_reverse(bytes) ==
    IF Len(bytes) < 36 THEN Err(InsufficientBytes)
    ELSE LET txid_bytes == SubSeq(bytes, 1, 32)
             vout == FromLeBytes(SubSeq(bytes, 33, 36))
         IN Ok(OutPoint_new(txid_bytes, vout), 36)

OutPoint_from_bytes(bytes) ==
    IF Len(bytes) < 36 THEN Err(InsufficientBytes)
    ELSE LET txid_bytes == Reverse(SubSeq(bytes, 1, 32))
             vout == FromLeBytes(SubSeq(bytes, 33, 36))
         IN Ok(OutPoint_new(txid_bytes, vout), 36)

----------------------------------------------------------------------------
(* Script *)

Script_new(bytes) == [bytes |-> bytes]

Script_to_bytes(self) ==
    LET length_prefix == CompactSize_to_bytes(CompactSize_new(U64FromNat(Len(self.bytes))))
    IN length_prefix \o self.bytes

\* `prefix_len + script_len` is a usize addition: with overflow checks it
\* panics on overflow, without them it wraps and the slice
\* bytes[prefix_len..total_len] then panics because its start exceeds its end.
Script_from_bytes(bytes) ==
    LET r == CompactSize_from_bytes(bytes) IN
    IF r.tag # "Ok" THEN r
    ELSE LET prefix_len == r.used
             script_len == r.value.value
             add == AddUsize(U64FromNat(prefix_len), script_len)
             total_len == add.sum
         IN IF add.overflow /\ overflow_checks
            THEN Panic("attempt to add with overflow")
            ELSE IF LtU64(U64FromNat(Len(bytes)), total_len)
            THEN Err(InsufficientBytes)
            ELSE IF LtU64(total_len, U64FromNat(prefix_len))
            THEN Panic("slice index starts after its end")
            ELSE Ok(Script_new(SubSeq(bytes, prefix_len + 1, ToNat(total_len))),
                    ToNat(total_len))

\* Deref for Script: the byte vector itself
Script_deref(self) == self.bytes

----------------------------------------------------------------------------
(* TransactionInput *)

TransactionInput_new(previous_output, script_sig, sequence) ==
    [previous_output |-> previous_output,
     script_sig      |-> script_sig,
     sequence        |-> sequence]

TransactionInput_to_bytes_sequence_first(self) ==
    OutPoint_to_bytes(self.previous_output)
        \o ToLeBytes(self.sequence)
        \o Script_to_bytes(self.script_sig)

TransactionInput_to_bytes(self) ==
    OutPoint_to_bytes(self.previous_output)
        \o Script_to_bytes(self.script_sig)
        \o ToLeBytes(self.sequence)

TransactionInput_from_bytes(bytes) ==
    LET r1 == OutPoint_from_bytes(bytes) IN
    IF r1.tag # "Ok" THEN r1
    ELSE LET out_len == r1.used
             r2 == Script_from_bytes(SubSeq(bytes, out_len + 1, Len(bytes)))
         IN IF r2.tag # "Ok" THEN r2
            ELSE LET offset == out_len + r2.used IN
                IF Len(bytes) < offset + 4 THEN Err(InsufficientBytes)
                ELSE LET sequence == FromLeBytes(SubSeq(bytes, offset + 1, offset + 4))
                     IN Ok(TransactionInput_new(r1.value, r2.value, sequence), offset + 4)

----------------------------------------------------------------------------
(* BitcoinTransaction *)

BitcoinTransaction_new(version, inputs, lock_time) ==
    [version |-> version, inputs |-> inputs, lock_time |-> lock_time]

RECURSIVE ConcatInputs(_, _)
ConcatInputs(inputs, i) ==
    IF i > Len(inputs) THEN <<>>
    ELSE TransactionInput_to_bytes(inputs[i]) \o ConcatInputs(inputs, i + 1)

BitcoinTransaction_to_bytes(self) ==
    LET input_count == CompactSize_new(U64FromNat(Len(self.inputs)))
    IN ToLeBytes(self.version)
         \o CompactSize_to_bytes(input_count)
         \o ConcatInputs(self.inputs, 1)
         \o ToLeBytes(self.lock_time)

\* size_of::<TransactionInput>() on a 64-bit target: 36 + 24 + 4
SizeOfTransactionInput == 64

\* Vec::with_capacity(input_count): a request above isize::MAX bytes panics
\* with "capacity overflow"; a request the allocator refuses aborts the
\* process, which is left open for requests of 2^32 elements (256 GiB) or
\* more; smaller requests are taken to succeed.
Vec_with_capacity(capacity) ==
    IF capacity[4] >= 32768 \div SizeOfTransactionInput THEN Panic("capacity overflow")
    ELSE IF (capacity[4] # 0 \/ capacity[3] # 0) /\ ~alloc_ok
    THEN Panic("memory allocation failed")
    ELSE OkVal(<<>>)

\* for _ in 0..input_count { ... }: iteration i of the loop at `offset`
RECURSIVE ParseInputs(_, _, _, _, _)
ParseInputs(bytes, offset, i, input_count, inputs) ==
    IF ~LtU64(U64FromNat(i), input_count) THEN Ok(inputs, offset)
    ELSE LET r == TransactionInput_from_bytes(SubSeq(bytes, offset + 1, Len(bytes))) IN
        IF r.tag # "Ok" THEN r
        ELSE ParseInputs(bytes, offset + r.used, i + 1, input_count,
                         Append(inputs, r.value))

BitcoinTransaction_from_bytes_unchecked_lock_time(bytes) ==
    IF Len(bytes) < 4 THEN Err(InsufficientBytes)
    ELSE LET version == FromLeBytes(SubSeq(bytes, 1, 4))
             rc == CompactSize_from_bytes(SubSeq(bytes, 5, Len(bytes)))
         IN IF rc.tag # "Ok" THEN rc
            ELSE LET input_count == rc.value.value
                     vec == Vec_with_capacity(input_count)
                 IN IF vec.tag # "Ok" THEN vec
                    ELSE LET ri == ParseInputs(bytes, 4 + rc.used, 0, input_count, vec.value) IN
                        IF ri.tag # "Ok" THEN ri
                        ELSE LET offset == ri.used IN
                            IF Len(bytes) < offset THEN Err(InsufficientBytes)
                            ELSE IF Len(bytes) < offset + 4
                            THEN Panic("range end index out of range for slice")
                            ELSE LET lock_time == FromLeBytes(SubSeq(bytes, offset + 1, offset + 4))
                                 IN Ok(BitcoinTransaction_new(version, ri.value, lock_time),
                                       offset + 4)

BitcoinTransaction_from_bytes(bytes) ==
    IF Len(bytes) < 4 THEN Err(InsufficientBytes)
    ELSE LET version == FromLeBytes(SubSeq(bytes, 1, 4))
             rc == CompactSize_from_bytes(SubSeq(bytes, 5, Len(bytes)))
         IN IF rc.tag # "Ok" THEN rc
            ELSE LET input_count == rc.value.value
                     vec == Vec_with_capacity(input_count)
                 IN IF vec.tag # "Ok" THEN vec
                    ELSE LET ri == ParseInputs(bytes, 4 + rc.used, 0, input_count, vec.value) IN
                        IF ri.tag # "Ok" THEN ri
                        ELSE LET offset == ri.used IN
                            IF Len(bytes) < offset + 4 THEN Err(InsufficientBytes)
                            ELSE LET lock_time == FromLeBytes(SubSeq(bytes, offset + 1, offset + 4))
                                 IN Ok(BitcoinTransaction_new(version, ri.value, lock_time),
                                       offset + 4)

\* Display for BitcoinTransaction: the fields the rendering prints, the txid
\* and the script as the hex strings it writes
BitcoinTransaction_fmt(self) ==
    [version   |-> self.version,
     lock_time |-> self.lock_time,
     count     |-> Len(self.inputs),
     lines     |-> [i \in 1..Len(self.inputs) |->
        LET input == self.inputs[i]
            be_txid == Reverse(input.previous_output.txid[1])
        IN [index      |-> i - 1,
            txid_hex   |-> hex_encode(be_txid),
            vout       |-> input.previous_output.vout,
            script_hex |-> hex_encode(Script_deref(input.script_sig)),
            sequence   |-> input.sequence]]]

----------------------------------------------------------------------------
(* Inputs of the CompactSize specification *)

\* limb values around the class boundaries 0xFC / 0xFD / 0xFFFF / 0x10000
BoundaryLimbs == {0, 1, 252, 253, 65535}

CompactSizeValues == {CompactSize_new(u) : u \in [1..4 -> BoundaryLimbs]}

FirstBytes == {0, 252, 253, 254, 255}

TailFill(kind, i) ==
    CASE kind = "zero" -> 0
      [] kind = "one"  -> IF i = 1 THEN 1 ELSE 0
      [] kind = "asc"  -> i
      [] kind = "ff"   -> 255

RawCompactSizeInputs ==
    {<<>>} \cup
    {<<f>> \o [i \in 1..n |-> TailFill(k, i)] :
        f \in FirstBytes, n \in 0..MaxRawTail, k \in {"zero", "one", "asc", "ff"}}

InitCompactSize ==
    /\ overflow_checks = FALSE
    /\ alloc_ok = TRUE
    /\ res = NoRes
    /\ \/ pc = "value" /\ val \in CompactSizeValues /\ buf = <<>>
       \/ pc = "raw" /\ val = NoVal /\ buf \in RawCompactSizeInputs

CompactSizeToBytes ==
    /\ pc = "value"
    /\ buf' = CompactSize_to_bytes(val)
    /\ pc' = "encoded"
    /\ UNCHANGED <<val, res, overflow_checks, alloc_ok>>

CompactSizeFromBytes ==
    /\ pc \in {"encoded", "raw"}
    /\ res' = CompactSize_from_bytes(buf)
    /\ pc' = IF pc = "encoded" THEN "decoded" ELSE "rawdecoded"
    /\ UNCHANGED <<val, buf, overflow_checks, alloc_ok>>

NextCompactSize == CompactSizeToBytes \/ CompactSizeFromBytes

SpecCompactSize == InitCompactSize /\ [][NextCompactSize]_vars

----------------------------------------------------------------------------
(* C1: decoding the encoding of any u64 v succeeds and returns v together  *)
(* with the length of the encoding.                                        *)
C1_RoundTrip ==
    pc = "decoded" =>
        /\ res.tag = "Ok"
        /\ res.value = val
        /\ res.used = Len(buf)

C1_Witness ==
    /\ pc = "decoded"
    /\ res.tag = "Ok"
    /\ res.used = 9
    /\ val.value = <<0, 0, 1, 0>>

\* byte i (0-based) of the little-endian representation of a u64
ByteOfValue(v, i) ==
    IF i % 2 = 0 THEN v[(i \div 2) + 1] % 256 ELSE v[(i \div 2) + 1] \div 256

\* total length the encoding table gives for v
TableLength(v) ==
    IF v[4] = 0 /\ v[3] = 0 /\ v[2] = 0 /\ v[1] <= 252 THEN 1
    ELSE IF v[4] = 0 /\ v[3] = 0 /\ v[2] = 0 THEN 3
    ELSE IF v[4] = 0 /\ v[3] = 0 THEN 5
    ELSE 9

TableMarker(n) == CASE n = 3 -> 253 [] n = 5 -> 254 [] n = 9 -> 255

(* C2: to_bytes emits the minimal-length form of the table: one byte for   *)
(* v <= 0xFC, else 0xFD / 0xFE / 0xFF followed by v in 2 / 4 / 8           *)
(* little-endian bytes; the boundary values fall in the class of the table.*)
C2_MinimalEncoding ==
    pc = "encoded" =>
        LET v == val.value
            n == TableLength(v)
        IN /\ Len(buf) = n
           /\ n = 1 => buf[1] = v[1]
           /\ n > 1 => /\ buf[1] = TableMarker(n)
                       /\ \A i \in 0..(n - 2) : buf[i + 2] = ByteOfValue(v, i)
           /\ v = <<252, 0, 0, 0>> => buf = <<252>>
           /\ v = <<253, 0, 0, 0>> => buf = <<253, 253, 0>>
           /\ v = <<65535, 0, 0, 0>> => buf = <<253, 255, 255>>
           /\ v = <<0, 1, 0, 0>> => buf = <<254, 0, 0, 1, 0>>
           /\ v = <<65535, 65535, 0, 0>> => buf = <<254, 255, 255, 255, 255>>
           /\ v = <<0, 0, 1, 0>> => buf = <<255, 0, 0, 0, 0, 1, 0, 0, 0>>

C2_Witness ==
    /\ pc = "encoded"
    /\ val.value = <<65535, 0, 0, 0>>
    /\ Len(buf) = 3

\* total length selected by the first byte of a CompactSize input
SelectedLength(first) ==
    IF first <= 252 THEN 1
    ELSE IF first = 253 THEN 3
    ELSE IF first = 254 THEN 5
    ELSE 9

\* limb j of the little-endian value of the n - 1 bytes after the first
TrailingLimb(bytes, n, j) ==
    IF 2 * j + 1 <= n THEN bytes[2 * j] + 256 * bytes[2 * j + 1] ELSE 0

(* C10: from_bytes fails with InsufficientBytes exactly when the input is  *)
(* empty or shorter than the length its first byte selects; otherwise it   *)
(* returns the little-endian value of the trailing bytes and that length,  *)
(* accepting non-minimal encodings and ignoring extra bytes.               *)
C10_DecodeTotal ==
    pc = "rawdecoded" =>
        LET n == IF buf = <<>> THEN 1 ELSE SelectedLength(buf[1]) IN
        /\ (res = Err(InsufficientBytes)) <=> (Len(buf) < n)
        /\ Len(buf) >= n =>
            /\ res.tag = "Ok"
            /\ res.used = n
            /\ res.value.value =
                  IF n = 1 THEN <<buf[1], 0, 0, 0>>
                  ELSE [j \in 1..4 |-> TrailingLimb(buf, n, j)]
        /\ buf = <<253, 1>> => res = Err(InsufficientBytes)
        /\ buf = <<253, 1, 0>> => res = Ok(CompactSize_new(<<1, 0, 0, 0>>), 3)

C10_Witness ==
    /\ pc = "rawdecoded"
    /\ buf = <<253, 1, 0, 0>>
    /\ res.tag = "Ok"
    /\ res.used = 3

----------------------------------------------------------------------------
(* Inputs and operations of the Txid specification *)

TxidKinds == {"zero", "asc", "desc", "mixed"}

TxidBytes(kind) ==
    [i \in 1..32 |->
        CASE kind = "zero"  -> 0
          [] kind = "asc"   -> i
          [] kind = "desc"  -> 256 - i
          [] kind = "mixed" -> (37 * i) % 256]

Txids == {Txid(TxidBytes(k)) : k \in TxidKinds}

HexFill(kind, i) ==
    CASE kind = "lower" -> HexLower[(i % 16) + 1]
      [] kind = "upper" -> HexUpper[((3 * i) % 16) + 1]
      [] kind = "digit" -> HexLower[(i % 10) + 1]

NonHexChars == {"g", "G", " "}

RawTxidStrings ==
    {[i \in 1..n |-> HexFill(k, i)] : n \in 0..MaxHexLen, k \in {"lower", "upper", "digit"}}
    \cup
    {[i \in 1..n |-> IF i = p THEN c ELSE HexFill(k, i)] :
        n \in 1..MaxHexLen, k \in {"lower", "upper"}, p \in {1, 64, MaxHexLen}, c \in NonHexChars}

InitTxid ==
    /\ overflow_checks = FALSE
    /\ alloc_ok = TRUE
    /\ res = NoRes
    /\ \/ pc = "value" /\ val \in Txids /\ buf = <<>>
       \/ pc = "raw" /\ val = NoVal /\ buf \in RawTxidStrings

TxidSerialize ==
    /\ pc = "value"
    /\ buf' = Txid_serialize(val)
    /\ pc' = "encoded"
    /\ UNCHANGED <<val, res, overflow_checks, alloc_ok>>

TxidDeserialize ==
    /\ pc \in {"encoded", "raw"}
    /\ res' = Txid_visit_str(buf)
    /\ pc' = IF pc = "encoded" THEN "decoded" ELSE "rawdecoded"
    /\ UNCHANGED <<val, buf, overflow_checks, alloc_ok>>

NextTxid == TxidSerialize \/ TxidDeserialize

SpecTxid == InitTxid /\ [][NextTxid]_vars

HexChars ==
    {"0", "1", "2", "3", "4", "5", "6", "7", "8", "9",
     "a", "b", "c", "d", "e", "f", "A", "B", "C", "D", "E", "F"}

Malformed(str) == Len(str) # 64 \/ \E i \in 1..Len(str) : str[i] \notin HexChars

----------------------------------------------------------------------------
(* Inputs and operations of the OutPoint specification *)

U32Values == [1..2 -> BoundaryLimbs]

OutPoints == {OutPoint_new(TxidBytes(k), v) : k \in TxidKinds, v \in U32Values}

RawOutPointInputs ==
    {[i \in 1..n |-> (m * i) % 256] : n \in 0..MaxOutPointRaw, m \in {0, 1, 7}}

InitOutPoint ==
    /\ overflow_checks = FALSE
    /\ alloc_ok = TRUE
    /\ res = NoRes
    /\ \/ pc = "value" /\ val \in OutPoints /\ buf = <<>>
       \/ pc = "raw" /\ val = NoVal /\ buf \in RawOutPointInputs

OutPointToBytes ==
    /\ pc = "value"
    /\ buf' = OutPoint_to_bytes(val)
    /\ pc' = "encoded"
    /\ UNCHANGED <<val, res, overflow_checks, alloc_ok>>

OutPointFromBytes ==
    /\ pc \in {"encoded", "raw"}
    /\ res' = OutPoint_from_bytes(buf)
    /\ pc' = IF pc = "encoded" THEN "decoded" ELSE "rawdecoded"
    /\ UNCHANGED <<val, buf, overflow_checks, alloc_ok>>

\* the txid of the encoded outpoint as Serialize and Display write it
OutPointRender ==
    /\ pc = "encoded"
    /\ res' = [tag       |-> "Rendered",
               serialize |-> Txid_serialize(val.txid),
               display   |-> BitcoinTransaction_fmt(
                                BitcoinTransaction_new(<<1, 0>>,
                                    <<TransactionInput_new(val, Script_new(<<>>), <<65535, 65535>>)>>,
                                    <<0, 0>>)).lines[1].txid_hex]
    /\ pc' = "rendered"
    /\ UNCHANGED <<val, buf, overflow_checks, alloc_ok>>

NextOutPoint == OutPointToBytes \/ OutPointFromBytes \/ OutPointRender

SpecOutPoint == InitOutPoint /\ [][NextOutPoint]_vars

\* the bytes a hex string spells
BytesOfHex(str) == hex_decode(str).value

C9_OutPointRoundTrip ==
    /\ pc \in {"encoded", "decoded"} =>
        /\ Len(buf) = 36
        /\ buf[33] = val.vout[1] % 256
        /\ buf[34] = val.vout[1] \div 256
        /\ buf[35] = val.vout[2] % 256
        /\ buf[36] = val.vout[2] \div 256
    /\ pc = "decoded" => res = Ok(val, 36)

C9_Witness ==
    /\ pc = "decoded"
    /\ val = OutPoint_new(TxidBytes("mixed"), <<253, 1>>)
    /\ res.tag = "Ok"
    /\ res.used = 36

----------------------------------------------------------------------------
(* Inputs and operations of the Script specification *)

ScriptBytes(n) == [i \in 1..n |-> (16 * i + i) % 256]

Scripts == {Script_new(ScriptBytes(n)) : n \in (0..MaxScriptLen) \cup {252, 253}}

\* CompactSize fields: minimal, non-minimal, cut short, and near 2^64
RawLengthPrefixes ==
    { <<>>, <<0>>, <<1>>, <<2>>, <<3>>, <<252>>,
      <<253>>, <<253, 2>>, <<253, 2, 0>>, <<253, 0, 1>>,
      <<254, 2, 0, 0>>, <<254, 2, 0, 0, 0>>, <<254, 0, 0, 0, 1>>,
      <<255, 2, 0, 0, 0, 0, 0, 0>>, <<255, 2, 0, 0, 0, 0, 0, 0, 0>>,
      <<255, 0, 0, 0, 0, 0, 0, 0, 128>>,
      <<255, 246, 255, 255, 255, 255, 255, 255, 255>>,
      <<255, 247, 255, 255, 255, 255, 255, 255, 255>>,
      <<255, 255, 255, 255, 255, 255, 255, 255, 255>> }

RawScriptInputs ==
    {pre \o ScriptBytes(m) : pre \in RawLengthPrefixes, m \in 0..MaxRawPayload}

InitScript ==
    /\ overflow_checks \in BOOLEAN
    /\ alloc_ok = TRUE
    /\ res = NoRes
    /\ \/ pc = "value" /\ val \in Scripts /\ buf = <<>>
       \/ pc = "raw" /\ val = NoVal /\ buf \in RawScriptInputs

ScriptToBytes ==
    /\ pc = "value"
    /\ buf' = Script_to_bytes(val)
    /\ pc' = "encoded"
    /\ UNCHANGED <<val, res, overflow_checks, alloc_ok>>

ScriptFromBytes ==
    /\ pc \in {"encoded", "raw"}
    /\ res' = Script_from_bytes(buf)
    /\ pc' = IF pc = "encoded" THEN "decoded" ELSE "rawdecoded"
    /\ UNCHANGED <<val, buf, overflow_checks, alloc_ok>>

NextScript == ScriptToBytes \/ ScriptFromBytes

SpecScript == InitScript /\ [][NextScript]_vars

\* a declared length that no buffer of the model can hold
Huge(n) == n[4] # 0 \/ n[3] # 0 \/ n[2] >= 32768

(* C5: when the length prefix of a Script input decodes to n with prefix   *)
(* length p, the result is InsufficientBytes if fewer than p + n bytes are *)
(* available (on the true sum, also for n near 2^64), and otherwise Ok     *)
(* with the n bytes after the prefix and consumed length p + n.            *)
C5_ScriptLengthCheck ==
    (pc = "rawdecoded" /\ CompactSize_from_bytes(buf).tag = "Ok") =>
        LET n == CompactSize_from_bytes(buf).value.value
            p == CompactSize_from_bytes(buf).used
        IN IF Huge(n) \/ Len(buf) < p + ToNat(n)
           THEN res = Err(InsufficientBytes)
           ELSE res = Ok(Script_new(SubSeq(buf, p + 1, p + ToNat(n))), p + ToNat(n))

\* the same statement for declared lengths whose sum with p fits a usize
C5_WithoutOverflow ==
    (pc = "rawdecoded" /\ CompactSize_from_bytes(buf).tag = "Ok") =>
        LET n == CompactSize_from_bytes(buf).value.value
            p == CompactSize_from_bytes(buf).used
        IN AddUsize(U64FromNat(p), n).overflow \/ C5_ScriptLengthCheck

----------------------------------------------------------------------------
(* Inputs and operations of the BitcoinTransaction specification *)

\* one input whose script_sig needs the three-byte length prefix
LongScriptInput ==
    TransactionInput_new(OutPoint_new(TxidBytes("mixed"), <<7, 0>>),
                         Script_new(ScriptBytes(253)), <<0, 1>>)

TransactionInputs ==
    {TransactionInput_new(OutPoint_new(TxidBytes(k), v), Script_new(ScriptBytes(n)), q) :
        k \in {"zero", "asc"}, v \in {<<0, 0>>, <<513, 1027>>},
        n \in 0..MaxScriptLen, q \in {<<65535, 65535>>, <<65534, 0>>}}
    \cup {LongScriptInput}

InputLists == UNION {[1..m -> TransactionInputs] : m \in 0..MaxInputs}

Transactions ==
    {BitcoinTransaction_new(ver, ins, lt) :
        ver \in {<<1, 0>>, <<2, 32768>>}, ins \in InputLists, lt \in {<<0, 0>>, <<58368, 7>>}}

\* input-count fields: small, non-minimal, and counts no buffer can hold
RawCountFields ==
    { <<>>, <<0>>, <<1>>, <<2>>, <<3>>, <<253, 1, 0>>, <<253, 0, 1>>,
      <<254, 0, 0, 1, 0>>,
      <<255, 0, 0, 0, 0, 1, 0, 0, 0>>,
      <<255, 0, 0, 0, 0, 0, 0, 0, 2>>,
      <<255, 255, 255, 255, 255, 255, 255, 255, 255>> }

\* script_sig fields: empty, two bytes, non-minimal, too long, overflowing
RawScriptFields ==
    { <<0>>, <<2, 171, 205>>, <<253, 1, 0, 239>>, <<254, 0, 0, 0, 1>>,
      <<255, 255, 255, 255, 255, 255, 255, 255, 255>> }

RawInput(script) ==
    OutPoint_to_bytes(OutPoint_new(TxidBytes("asc"), <<513, 1027>>))
        \o script \o <<254, 255, 0, 0>>

RECURSIVE Repeat(_, _)
Repeat(bytes, m) == IF m = 0 THEN <<>> ELSE bytes \o Repeat(bytes, m - 1)

RawTransactionLayouts ==
    {<<1, 0, 0, 0>> \o count \o Repeat(RawInput(script), m) \o <<0, 228, 7, 0>> :
        count \in RawCountFields, script \in RawScriptFields, m \in 0..MaxRawInputs}

\* every prefix of every layout
RawTransactionInputs ==
    UNION {{SubSeq(full, 1, n) : n \in 0..Len(full)} : full \in RawTransactionLayouts}

InitTransaction ==
    /\ overflow_checks \in BOOLEAN
    /\ alloc_ok \in BOOLEAN
    /\ res = NoRes
    /\ \/ pc = "value" /\ val \in Transactions /\ buf = <<>>
       \/ pc = "raw" /\ val = NoVal /\ buf \in RawTransactionInputs

TransactionToBytes ==
    /\ pc = "value"
    /\ buf' = BitcoinTransaction_to_bytes(val)
    /\ pc' = "encoded"
    /\ UNCHANGED <<val, res, overflow_checks, alloc_ok>>

\* the caller drops the final byte of an encoded transaction
TransactionTruncate ==
    /\ pc = "encoded"
    /\ buf' = SubSeq(buf, 1, Len(buf) - 1)
    /\ pc' = "truncated"
    /\ UNCHANGED <<val, res, overflow_checks, alloc_ok>>

TransactionFromBytes ==
    /\ pc \in {"encoded", "truncated", "raw"}
    /\ res' = BitcoinTransaction_from_bytes(buf)
    /\ pc' = CASE pc = "encoded"   -> "decoded"
               [] pc = "truncated" -> "truncdecoded"
               [] pc = "raw"       -> "rawdecoded"
    /\ UNCHANGED <<val, buf, overflow_checks, alloc_ok>>

NextTransaction == TransactionToBytes \/ TransactionTruncate \/ TransactionFromBytes

SpecTransaction == InitTransaction /\ [][NextTransaction]_vars

ExampleTransaction ==
    BitcoinTransaction_new(<<1, 0>>,
        <<TransactionInput_new(OutPoint_new([i \in 1..32 |-> 0], <<0, 0>>),
                               Script_new(<<>>), <<65535, 65535>>)>>,
        <<0, 0>>)

ExampleBytes ==
    <<1, 0, 0, 0>> \o <<1>> \o [i \in 1..32 |-> 0] \o <<0, 0, 0, 0>>
        \o <<0>> \o <<255, 255, 255, 255>> \o <<0, 0, 0, 0>>

(* C3: decoding the encoding of any transaction returns that transaction   *)
(* and the length of the encoding; the example transaction encodes to the  *)
(* 50 bytes of the specification and decodes with 50 bytes consumed.       *)
C3_TransactionRoundTrip ==
    /\ pc = "decoded" => res = Ok(val, Len(buf))
    /\ (pc \in {"encoded", "decoded"} /\ val = ExampleTransaction) =>
          (buf = ExampleBytes /\ Len(buf) = 50)
    /\ (pc = "decoded" /\ val = ExampleTransaction) => res = Ok(ExampleTransaction, 50)

C3_Witness ==
    /\ pc = "decoded"
    /\ Len(val.inputs) = 2
    /\ val.inputs[1] # val.inputs[2]
    /\ res.tag = "Ok"
    /\ res.value = val

(* C4: an encoded transaction without its final byte decodes to            *)
(* Err(InsufficientBytes), never to Ok.                                    *)
C4_TruncatedFails ==
    pc = "truncdecoded" => res = Err(InsufficientBytes)

C4_Witness ==
    /\ pc = "truncdecoded"
    /\ Len(val.inputs) = 2
    /\ Len(buf) = Len(BitcoinTransaction_to_bytes(val)) - 1
    /\ res.tag = "Err"

\* the inputs TransactionInput::from_bytes reads one after another from offset
RECURSIVE InputsInOrder(_, _, _)
InputsInOrder(bytes, offset, inputs) ==
    inputs = <<>> \/
        LET r == TransactionInput_from_bytes(SubSeq(bytes, offset + 1, Len(bytes))) IN
        /\ r.tag = "Ok"
        /\ r.value = Head(inputs)
        /\ InputsInOrder(bytes, offset + r.used, Tail(inputs))

(* C6: when the input-count field decodes to k, from_bytes returns either  *)
(* Ok with exactly the k inputs parsed in order or the error of the first  *)
(* failing step (InsufficientBytes), for every k up to 2^64 - 1; it never  *)
(* returns fewer than k inputs.                                            *)
C6_CountedInputsOrError ==
    (/\ pc = "rawdecoded"
     /\ Len(buf) >= 4
     /\ CompactSize_from_bytes(SubSeq(buf, 5, Len(buf))).tag = "Ok") =>
        LET rc == CompactSize_from_bytes(SubSeq(buf, 5, Len(buf)))
            k == rc.value.value
        IN \/ res = Err(InsufficientBytes)
           \/ /\ res.tag = "Ok"
              /\ U64FromNat(Len(res.value.inputs)) = k
              /\ InputsInOrder(buf, 4 + rc.used, res.value.inputs)

====
